---- MODULE Spec2Model ----
(***************************************************************************)
(* Model of the DigiTexRecords OCR driver (ocr_engine.py) and of the PDF   *)
(* preview helper (scripts/convert_pdf.py).                                *)
(*                                                                         *)
(* A Python string is a sequence of tokens (TLA+ strings); the string it   *)
(* stands for is the concatenation of its tokens.  Fragment texts and the  *)
(* flattened text are kept canonical (one character per token), so that    *)
(* equality of sequences is equality of the strings, byte for byte.        *)
(***************************************************************************)
EXTENDS Integers, Sequences, FiniteSets, TLC

\* ---------------------------------------------------------------- bounds
\* largest number of leaves of a paginated document
MaxLeaves == 2
\* largest number of fragments one recognition call returns
MaxFrags == 2

\* ---------------------------------------------------------------- inputs
Progs == {"ocr_engine", "convert_pdf"}
Modes == {"preprocess", "ocr", "full"}

\* a path is <<stem, extension>>
Paths == { <<"deed", ".PDF">>, <<"scan", ".jpg">> }
\* convert_pdf.py started without a file argument
NoArg == <<>>

\* str.lower() on the tokens of the paths above
Lower(tok) ==
  CASE tok = ".PDF" -> ".pdf"
    [] OTHER -> tok

LowerPath(p) == [i \in 1..Len(p) |-> Lower(p[i])]

\* lower_path.endswith('.pdf')
IsPdf(p) == Len(p) > 0 /\ LowerPath(p)[Len(p)] = ".pdf"

\* os.path.splitext(image_path)
SplitExt(p) == << SubSeq(p, 1, Len(p) - 1), p[Len(p)] >>

\* ---------------------------------------------------------------- strings
NL == "\n"
NoError == <<>>

Digit(d) == <<"0", "1", "2", "3", "4", "5", "6", "7", "8", "9">>[d + 1]

RECURSIVE IntToStr(_)
\* str(n) of a non-negative integer, one token per digit
IntToStr(n) == IF n < 10 THEN <<Digit(n)>>
               ELSE IntToStr(n \div 10) \o <<Digit(n % 10)>>

RECURSIVE Join(_, _)
\* sep.join(parts)
Join(sep, parts) ==
  IF Len(parts) = 0 THEN <<>>
  ELSE IF Len(parts) = 1 THEN parts[1]
  ELSE parts[1] \o sep \o Join(sep, Tail(parts))

\* ---------------------------------------------------------------- pages
\* a raster page: the leaf it was rendered from and what was done to it
Img(k) == [leaf |-> k, gray |-> FALSE, denoised |-> FALSE]
NoneImg == [leaf |-> 0, gray |-> FALSE, denoised |-> FALSE]

\* preprocess_image_array(img); cv_ok: the OpenCV calls did not raise
preprocess_image_array(img, cv_ok) ==
  IF img = NoneImg THEN << NoneImg, <<"Empty image">> >>
  ELSE IF cv_ok THEN << [img EXCEPT !.gray = TRUE, !.denoised = TRUE], NoError >>
  ELSE << NoneImg, <<"cv2.error">> >>

\* ---------------------------------------------------------------- fragments
Hello == <<"H", "e", "l", "l", "o">>
World == <<"W", "o", "r", "l", "d">>

\* box coordinates and probabilities are in tenths / hundredths
Scale == 10
Fragments ==
  { [bbox |-> << <<105, 20>>, <<519, 20>>, <<519, 88>>, <<105, 88>> >>,
     text |-> Hello, prob |-> 91],
    [bbox |-> << <<40, 300>>, <<407, 300>>, <<407, 360>>, <<40, 360>> >>,
     text |-> World, prob |-> 37] }

RECURSIVE SeqsUpTo(_, _)
SeqsUpTo(S, n) ==
  IF n = 0 THEN { <<>> }
  ELSE LET T == SeqsUpTo(S, n - 1)
       IN T \cup { Append(s, x) : s \in { t \in T : Len(t) = n - 1 }, x \in S }

\* what one reader.readtext call can do: raise, or return a fragment list
ReadOutcomes ==
  { [raised |-> TRUE, results |-> <<>>] } \cup
  { [raised |-> FALSE, results |-> r] : r \in SeqsUpTo(Fragments, MaxFrags) }

\* int(x) of a non-negative coordinate
IntOf(x) == x \div Scale

\* ---------------------------------------------------------------- state
VARIABLES
  prog,             \* which script runs
  mode,             \* args.mode
  path,             \* args.image_path / sys.argv[1]
  exists,           \* os.path.exists(path)
  leaves,           \* len(doc) of the document at path
  pc,               \* position of the script
  doc,              \* document handle: "none", "open", "released"
  page_num,         \* loop variable of load_images_from_path
  images,           \* list of loaded pages
  error,            \* error text returned by the loader (NoError = None)
  idx,              \* loop variable of the ocr loop
  full_text_lines,
  all_blocks,
  normalized,       \* leaves handed to preprocess_image_array, in call order
  recognized,       \* calls of reader.readtext: input page and returned list
  written,          \* files written by cv2.imwrite
  out,              \* JSON results printed on stdout, in order
  exit_code,        \* exit status of the process
  raised,           \* an exception reached the driver after the pages loaded
  uncaught          \* an exception left the script

vars == << prog, mode, path, exists, leaves, pc, doc, page_num, images, error,
           idx, full_text_lines, all_blocks, normalized, recognized, written,
           out, exit_code, raised, uncaught >>

inputs == << prog, mode, path, exists, leaves >>
ocrvars == << idx, full_text_lines, all_blocks >>

\* images is None exactly when the loader returned an error text
ImagesIsNone == error # NoError

Init ==
  /\ prog \in Progs
  /\ mode \in (IF prog = "ocr_engine" THEN Modes ELSE {"full"})
  /\ path \in (IF prog = "ocr_engine" THEN Paths ELSE Paths \cup {NoArg})
  /\ exists \in (IF path = NoArg THEN {FALSE} ELSE BOOLEAN)
  /\ leaves \in (IF IsPdf(path) /\ exists THEN 0..MaxLeaves ELSE {1})
  /\ pc = "start"
  /\ doc = "none"
  /\ page_num = 0
  /\ images = <<>>
  /\ error = NoError
  /\ idx = 0
  /\ full_text_lines = <<>>
  /\ all_blocks = <<>>
  /\ normalized = <<>>
  /\ recognized = <<>>
  /\ written = {}
  /\ out = <<>>
  /\ exit_code = 0
  /\ raised = FALSE
  /\ uncaught = FALSE


\* ---------------------------------------------------------------- results
\* {"status": "error", "message": ...}
ErrorResult(msg) == [status |-> "error", message |-> msg]

\* variant: the message leaves the path out
NotFoundMessage_NoPath(p) == <<"File not found">>

\* f"File not found: {image_path}"
NotFoundMessage(p) == <<"File not found: ">> \o p

\* str(e) of an exception raised while opening or rendering the file
LoadExcTexts(p) ==
  { <<"cannot open broken document">>,
    <<"Failed to open file '">> \o p \o <<"'.">> }

\* f"Error loading file: {str(e)}"
LoadErrorMessage(e) == <<"Error loading file: ">> \o e

\* str(e) of an exception raised in the ocr branch
DriverExcTexts == { <<"engine failure">> }

\* the local doc goes out of scope without doc.close(): whether the handle
\* is released then is left to the interpreter
DocAfterReturn == {"open", "released"}

\* hundredths: "confidence": 0.95
FixedConfidence == 95

\* variant: the preview reports the one page it normalized
PreprocessSuccess_OnePage(p, imgs) ==
  [status |-> "success",
   message |-> <<"Preprocessing complete (">> \o IntToStr(1) \o <<" pages)">>,
   processed_path |-> SplitExt(p)[1] \o <<"_processed.jpg">>,
   page_count |-> 1]

\* the success payload of preprocess mode
PreprocessSuccess(p, imgs) ==
  [status |-> "success",
   message |-> <<"Preprocessing complete (">> \o IntToStr(Len(imgs)) \o <<" pages)">>,
   processed_path |-> SplitExt(p)[1] \o <<"_processed.jpg">>,
   page_count |-> Len(imgs)]

\* one entry of all_blocks
SerializeBlock(frag, i) ==
  [text |-> frag.text,
   confidence |-> frag.prob,
   box |-> [j \in 1..Len(frag.bbox) |->
              << IntOf(frag.bbox[j][1]), IntOf(frag.bbox[j][2]) >>],
   page |-> i + 1]

\* all_blocks after the inner loop over results
AppendBlocks(blocks, results, i) ==
  blocks \o [j \in 1..Len(results) |-> SerializeBlock(results[j], i)]

\* variant: the texts of a page are added last to first
AppendTexts_Reversed(lines, results) ==
  lines \o [j \in 1..Len(results) |-> results[Len(results) - j + 1].text]

\* full_text_lines after the inner loop over results
AppendTexts(lines, results) ==
  lines \o [j \in 1..Len(results) |-> results[j].text]

\* variant: the marker carries the zero-based index
Marker_ZeroBased(i) ==
  <<NL, "-", "-", "-", " ", "P", "a", "g", "e", " ">> \o IntToStr(i)
    \o <<" ", "-", "-", "-", NL>>

\* f"\n--- Page {idx+1} ---\n"
Marker(i) ==
  <<NL, "-", "-", "-", " ", "P", "a", "g", "e", " ">> \o IntToStr(i + 1)
    \o <<" ", "-", "-", "-", NL>>

\* variant: the marker is added for a single page too
PageBreak_Always(lines, n, i) ==
  IF n >= 1 THEN Append(lines, Marker(i)) ELSE lines

\* full_text_lines after the page-break statement
PageBreak(lines, n, i) ==
  IF n > 1 THEN Append(lines, Marker(i)) ELSE lines

\* "\n".join(full_text_lines)
FullText(lines) == Join(<<NL>>, lines)

\* the success payload of ocr mode
OcrSuccess(lines, blocks) ==
  [status |-> "success",
   full_text |-> FullText(lines),
   blocks |-> blocks,
   confidence |-> FixedConfidence]

\* ---------------------------------------------------------------- ocr_engine.py
\* the existence check of the driver
CheckExists ==
  /\ pc = "start"
  /\ prog = "ocr_engine"
  /\ IF ~exists
     THEN /\ out' = Append(out, ErrorResult(NotFoundMessage(path)))
          /\ exit_code' = 1
          /\ pc' = "done"
     ELSE /\ pc' = "load"
          /\ UNCHANGED << out, exit_code >>
  /\ UNCHANGED << inputs, doc, page_num, images, error, ocrvars, normalized,
                  recognized, written, raised, uncaught >>

\* load_images_from_path, PDF branch: fitz.open
LoadOpen ==
  /\ pc = "load"
  /\ IsPdf(path)
  /\ \/ /\ doc' = "open"
        /\ images' = <<>>
        /\ page_num' = 0
        /\ pc' = "load_page"
        /\ UNCHANGED error
     \/ \E e \in LoadExcTexts(path) :
          /\ error' = LoadErrorMessage(e)
          /\ pc' = "loaded"
          /\ UNCHANGED << doc, images, page_num >>
  /\ UNCHANGED << inputs, ocrvars, normalized, recognized, written, out,
                  exit_code, raised, uncaught >>

\* load_images_from_path, PDF branch: one iteration of the loop over leaves
LoadPage ==
  /\ pc = "load_page"
  /\ page_num < leaves
  /\ \/ \* rendered and decoded
        /\ images' = Append(images, Img(page_num + 1))
        /\ page_num' = page_num + 1
        /\ UNCHANGED << pc, doc, error >>
     \/ \* cv2.imdecode returned None: the leaf is skipped
        /\ page_num' = page_num + 1
        /\ UNCHANGED << pc, doc, images, error >>
     \/ \* load_page, get_pixmap or imdecode raised
        \E e \in LoadExcTexts(path), d \in DocAfterReturn :
          /\ error' = LoadErrorMessage(e)
          /\ images' = <<>>
          /\ doc' = d
          /\ pc' = "loaded"
          /\ UNCHANGED page_num
  /\ UNCHANGED << inputs, ocrvars, normalized, recognized, written, out,
                  exit_code, raised, uncaught >>

\* load_images_from_path, PDF branch: return images, None
LoadReturn ==
  /\ pc = "load_page"
  /\ page_num = leaves
  /\ doc' \in DocAfterReturn
  /\ pc' = "loaded"
  /\ UNCHANGED << inputs, page_num, images, error, ocrvars, normalized,
                  recognized, written, out, exit_code, raised, uncaught >>

\* load_images_from_path, image branch
LoadImage ==
  /\ pc = "load"
  /\ ~IsPdf(path)
  /\ \/ /\ images' = << Img(1) >>
        /\ UNCHANGED error
     \/ \* cv2.imread returned None
        /\ error' = <<"Failed to load image (unsupported format?)">>
        /\ UNCHANGED images
     \/ \E e \in LoadExcTexts(path) :
          /\ error' = LoadErrorMessage(e)
          /\ UNCHANGED images
  /\ pc' = "loaded"
  /\ UNCHANGED << inputs, doc, page_num, ocrvars, normalized, recognized,
                  written, out, exit_code, raised, uncaught >>

\* variant: the empty page list is let through
EmptyCheck_Never(imgs) == FALSE

\* len(images) == 0
EmptyCheck(imgs) == Len(imgs) = 0

\* the driver after the loader returned
CheckLoaded ==
  /\ pc = "loaded"
  /\ IF ImagesIsNone
     THEN /\ out' = Append(out, ErrorResult(error))
          /\ exit_code' = 1
          /\ pc' = "done"
     ELSE IF EmptyCheck(images)
     THEN /\ out' = Append(out, ErrorResult(<<"No images extracted from file">>))
          /\ exit_code' = 1
          /\ pc' = "done"
     ELSE /\ pc' = "dispatch"
          /\ UNCHANGED << out, exit_code >>
  /\ UNCHANGED << inputs, doc, page_num, images, error, ocrvars, normalized,
                  recognized, written, raised, uncaught >>

\* mode 'preprocess'
PreprocessMode ==
  /\ pc = "dispatch"
  /\ mode = "preprocess"
  /\ pc' = "done"
  /\ IF Len(images) = 0
     THEN \* images[0] raises IndexError
          /\ raised' = TRUE
          /\ uncaught' = TRUE
          /\ exit_code' = 1
          /\ UNCHANGED << normalized, written, out >>
     ELSE \E cv_ok \in BOOLEAN, w \in {"ok", "false", "raise"} :
          LET pp == preprocess_image_array(images[1], cv_ok)
              output_path == SplitExt(path)[1] \o <<"_processed.jpg">>
          IN /\ normalized' = Append(normalized, images[1].leaf)
             /\ IF pp[1] # NoneImg
                THEN IF w = "raise"
                     THEN \* cv2.imwrite raised: nothing catches it
                          /\ raised' = TRUE
                          /\ uncaught' = TRUE
                          /\ exit_code' = 1
                          /\ UNCHANGED << written, out >>
                     ELSE /\ written' = IF w = "ok" THEN written \cup {output_path}
                                        ELSE written
                          /\ out' = Append(out, PreprocessSuccess(path, images))
                          /\ UNCHANGED << raised, uncaught, exit_code >>
                ELSE /\ out' = Append(out, ErrorResult(pp[2]))
                     /\ UNCHANGED << written, raised, uncaught, exit_code >>
  /\ UNCHANGED << inputs, doc, page_num, images, error, ocrvars, recognized >>

\* variant: the failure carries what was recognized so far
ExceptResult_Leaky(e) ==
  [status |-> "error", message |-> e,
   full_text |-> FullText(full_text_lines), blocks |-> all_blocks]

\* the except clause of the ocr branch
ExceptResult(e) == ErrorResult(e)

\* mode 'ocr': easyocr.Reader(...) and the two empty lists
OcrInit ==
  /\ pc = "dispatch"
  /\ mode = "ocr"
  /\ \/ /\ idx' = 0
        /\ full_text_lines' = <<>>
        /\ all_blocks' = <<>>
        /\ pc' = "ocr_loop"
        /\ UNCHANGED << out, raised >>
     \/ \E e \in DriverExcTexts :
          /\ raised' = TRUE
          /\ out' = Append(out, ExceptResult(e))
          /\ pc' = "done"
          /\ UNCHANGED ocrvars
  /\ UNCHANGED << inputs, doc, page_num, images, error, normalized, recognized,
                  written, exit_code, uncaught >>

\* mode 'ocr': one iteration of the loop over images
OcrPage ==
  /\ pc = "ocr_loop"
  /\ idx < Len(images)
  /\ \E cv_ok \in BOOLEAN, r \in ReadOutcomes :
       LET img == images[idx + 1]
           pp == preprocess_image_array(img, cv_ok)
           processed == IF pp[1] = NoneImg THEN img ELSE pp[1]
       IN /\ normalized' = Append(normalized, img.leaf)
          /\ IF r.raised
             THEN \E e \in DriverExcTexts :
                    /\ raised' = TRUE
                    /\ out' = Append(out, ExceptResult(e))
                    /\ pc' = "done"
                    /\ UNCHANGED << ocrvars, recognized >>
             ELSE /\ recognized' = Append(recognized,
                                     [input |-> processed, results |-> r.results])
                  /\ all_blocks' = AppendBlocks(all_blocks, r.results, idx)
                  /\ full_text_lines' =
                       PageBreak(AppendTexts(full_text_lines, r.results),
                                 Len(images), idx)
                  /\ idx' = idx + 1
                  /\ UNCHANGED << pc, out, raised >>
  /\ UNCHANGED << inputs, doc, page_num, images, error, written, exit_code,
                  uncaught >>

\* mode 'ocr': print(json.dumps({...}))
OcrEmit ==
  /\ pc = "ocr_loop"
  /\ idx = Len(images)
  /\ \/ /\ out' = Append(out, OcrSuccess(full_text_lines, all_blocks))
        /\ UNCHANGED raised
     \/ \E e \in DriverExcTexts :
          /\ raised' = TRUE
          /\ out' = Append(out, ExceptResult(e))
  /\ pc' = "done"
  /\ UNCHANGED << inputs, doc, page_num, images, error, ocrvars, normalized,
                  recognized, written, exit_code, uncaught >>

\* mode 'full'
FullMode ==
  /\ pc = "dispatch"
  /\ mode = "full"
  /\ out' = Append(out, ErrorResult(<<"Please use --mode preprocess or --mode ocr">>))
  /\ pc' = "done"
  /\ UNCHANGED << inputs, doc, page_num, images, error, ocrvars, normalized,
                  recognized, written, exit_code, raised, uncaught >>

\* ---------------------------------------------------------------- convert_pdf.py
\* {"error": ...}
ConvertError(msg) == [error |-> msg]

\* the success payload of convert_pdf_to_image
ConvertSuccess(k) ==
  [success |-> TRUE,
   base64 |-> [encoding |-> "base64", format |-> "png", leaf |-> k],
   width |-> 2, height |-> 2]

\* the script body: argument check
ConvertMain ==
  /\ pc = "start"
  /\ prog = "convert_pdf"
  /\ IF path = NoArg
     THEN /\ out' = Append(out, ConvertError(<<"No file path provided">>))
          /\ pc' = "done"
     ELSE /\ pc' = "convert_open"
          /\ UNCHANGED out
  /\ UNCHANGED << inputs, doc, page_num, images, error, ocrvars, normalized,
                  recognized, written, exit_code, raised, uncaught >>

\* convert_pdf_to_image: fitz.open and the page_count check
ConvertOpen ==
  /\ pc = "convert_open"
  /\ \/ /\ exists
        /\ IF leaves < 1
           THEN /\ out' = Append(out, ConvertError(<<"PDF has no pages">>))
                /\ doc' \in DocAfterReturn
                /\ pc' = "done"
           ELSE /\ doc' = "open"
                /\ pc' = "convert_render"
                /\ UNCHANGED out
     \/ \E e \in LoadExcTexts(path) :
          /\ out' = Append(out, ConvertError(e))
          /\ pc' = "done"
          /\ UNCHANGED doc
  /\ UNCHANGED << inputs, page_num, images, error, ocrvars, normalized,
                  recognized, written, exit_code, raised, uncaught >>

\* convert_pdf_to_image: render the first page and print
ConvertRender ==
  /\ pc = "convert_render"
  /\ \/ out' = Append(out, ConvertSuccess(1))
     \/ \E e \in LoadExcTexts(path) : out' = Append(out, ConvertError(e))
  /\ doc' \in DocAfterReturn
  /\ pc' = "done"
  /\ UNCHANGED << inputs, page_num, images, error, ocrvars, normalized,
                  recognized, written, exit_code, raised, uncaught >>

\* ---------------------------------------------------------------- specification
Next ==
  \/ CheckExists
  \/ LoadOpen
  \/ LoadPage
  \/ LoadReturn
  \/ LoadImage
  \/ CheckLoaded
  \/ PreprocessMode
  \/ OcrInit
  \/ OcrPage
  \/ OcrEmit
  \/ FullMode
  \/ ConvertMain
  \/ ConvertOpen
  \/ ConvertRender

Spec == Init /\ [][Next]_vars


\* ---------------------------------------------------------------- reading results
RECURSIVE SplitAcc(_, _, _)
SplitAcc(s, cur, acc) ==
  IF s = <<>> THEN Append(acc, cur)
  ELSE IF Head(s) = NL THEN SplitAcc(Tail(s), <<>>, Append(acc, cur))
  ELSE SplitAcc(Tail(s), Append(cur, Head(s)), acc)

\* the lines of a text, as text.split("\n") gives them
SplitLines(s) == SplitAcc(s, <<>>, <<>>)

\* the line "--- Page k ---"
MarkerLine(k) ==
  <<"-", "-", "-", " ", "P", "a", "g", "e", " ">> \o IntToStr(k) \o <<" ", "-", "-", "-">>

IsMarkerLine(l) == \E k \in 1..(MaxLeaves + 1) : l = MarkerLine(k)

\* the marker lines of a text, in order
MarkerLines(s) == SelectSeq(SplitLines(s), IsMarkerLine)

\* the lines of a text that are neither a marker line nor the blank padding
\* around one
NonMarkerLines(s) == SelectSeq(SplitLines(s), LAMBDA l : l # <<>> /\ ~IsMarkerLine(l))

\* a text has the tokens of p in it, contiguously
Contains(msg, p) ==
  \E i \in 1..(Len(msg) - Len(p) + 1) : SubSeq(msg, i, i + Len(p) - 1) = p

RECURSIVE SegAcc(_, _, _)
SegAcc(ls, cur, acc) ==
  IF ls = <<>> THEN Append(acc, cur)
  ELSE IF IsMarkerLine(Head(ls)) THEN SegAcc(Tail(ls), <<>>, Append(acc, cur))
  ELSE IF Head(ls) = <<>> THEN SegAcc(Tail(ls), cur, acc)
  ELSE SegAcc(Tail(ls), Append(cur, Head(ls)), acc)

\* the non-blank lines of a text, cut at its marker lines: the lines before
\* the first marker, between the first and the second, ..., after the last
Segments(s) == SegAcc(SplitLines(s), <<>>, <<>>)

\* the texts of the fragments one engine call returned
PageTexts(call) == [j \in 1..Len(call.results) |-> call.results[j].text]

RECURSIVE RecognizedTexts(_)
\* the texts of the fragments the engine returned, page after page
RecognizedTexts(rec) ==
  IF rec = <<>> THEN <<>>
  ELSE PageTexts(rec[1]) \o RecognizedTexts(Tail(rec))

RECURSIVE RecognizedTagged(_, _)
\* the fragments the engine returned, page after page, each with the number
\* of the call that returned it
RecognizedTagged(rec, k) ==
  IF rec = <<>> THEN <<>>
  ELSE [j \in 1..Len(rec[1].results) |->
          [text |-> rec[1].results[j].text,
           confidence |-> rec[1].results[j].prob,
           page |-> k]]
         \o RecognizedTagged(Tail(rec), k + 1)

\* text, confidence and page of the emitted blocks
BlockTags(blocks) ==
  [j \in 1..Len(blocks) |->
     [text |-> blocks[j].text, confidence |-> blocks[j].confidence,
      page |-> blocks[j].page]]

Engine == prog = "ocr_engine"
Emitted == Engine /\ pc = "done" /\ Len(out) > 0
OcrSucceeded == Emitted /\ mode = "ocr" /\ out[1].status = "success"
\* the loader returned a page list (possibly empty)
LoadedPages == Engine /\ exists /\ error = NoError
                 /\ pc \in {"loaded", "dispatch", "ocr_loop", "done"}
\* the path is missing or the loader could not read or decode it
LoadFailed == Engine /\ pc = "done" /\ (~exists \/ ImagesIsNone)

\* ---------------------------------------------------------------- claims

\* C1: in ocr mode the emitted blocks, and the non-marker lines of full_text,
\* are the fragments returned by the engine, page after page in page order and
\* in the order the engine returned them; none dropped, duplicated or moved.
C1_OrderPreserved ==
  OcrSucceeded =>
    /\ BlockTags(out[1].blocks) = RecognizedTagged(recognized, 1)
    /\ NonMarkerLines(out[1].full_text) = RecognizedTexts(recognized)
    /\ Len(recognized) = Len(images)
    /\ \A k \in 1..Len(images) : recognized[k].input.leaf = images[k].leaf

\* a two-page run whose pages returned different fragment lists
C1_Witness ==
  /\ OcrSucceeded
  /\ Len(images) = 2
  /\ RecognizedTexts(recognized) = <<World, Hello, Hello>>
  /\ Len(recognized[1].results) = 2

\* C2: full_text of ocr mode has page-break marker lines exactly when there is
\* more than one page, and for one page it is the fragment texts joined by a
\* newline, byte for byte.
C2_MarkersIffMultiPage ==
  OcrSucceeded =>
    /\ (MarkerLines(out[1].full_text) # <<>>) <=> (Len(images) > 1)
    /\ Len(images) = 1 =>
         out[1].full_text = Join(<<NL>>, RecognizedTexts(recognized))

\* a one-page run with two fragments
C2_Witness ==
  /\ OcrSucceeded
  /\ Len(images) = 1
  /\ RecognizedTexts(recognized) = <<World, Hello>>

HelloWorldRun ==
  /\ OcrSucceeded
  /\ Len(images) = 2
  /\ RecognizedTexts(recognized) = <<Hello, World>>
  /\ Len(recognized[1].results) = 1

\* C3 as stated: with n > 1 pages the markers stand between consecutive pages
\* only (n - 1 of them, none after the last page), and pages ["Hello"],
\* ["World"] give "Hello\n\n--- Page 1 ---\n\nWorld".
C3_Original ==
  /\ (OcrSucceeded /\ Len(images) > 1) =>
        Len(MarkerLines(out[1].full_text)) = Len(images) - 1
  /\ HelloWorldRun =>
        out[1].full_text =
          Hello \o <<NL, NL>> \o MarkerLine(1) \o <<NL, NL>> \o World

\* C3 amended: with n > 1 pages a marker line "--- Page k ---" follows the
\* fragments of every page k, the last included (n markers, numbered 1..n in
\* order, the text ending with the marker of page n), and pages ["Hello"],
\* ["World"] give "Hello\n\n--- Page 1 ---\n\nWorld\n\n--- Page 2 ---\n".
C3_MarkerAfterEveryPage ==
  /\ (OcrSucceeded /\ Len(images) > 1) =>
        LET t == out[1].full_text
            n == Len(images)
            tail == <<NL>> \o MarkerLine(n) \o <<NL>>
        IN /\ MarkerLines(t) = [k \in 1..n |-> MarkerLine(k)]
           /\ Len(t) >= Len(tail)
           /\ SubSeq(t, Len(t) - Len(tail) + 1, Len(t)) = tail
           /\ Segments(t) = [k \in 1..n |-> PageTexts(recognized[k])] \o << <<>> >>
  /\ HelloWorldRun =>
        out[1].full_text =
          Hello \o <<NL, NL>> \o MarkerLine(1) \o <<NL, NL>> \o World
            \o <<NL, NL>> \o MarkerLine(2) \o <<NL>>

\* the two-page Hello / World run
C3_Witness == HelloWorldRun

\* C4 as stated: a source that parses but yields zero pages makes ocr mode
\* return success with no blocks and an empty full_text.
C4_Original ==
  (LoadedPages /\ pc = "done" /\ mode = "ocr" /\ Len(images) = 0) =>
    /\ Len(out) = 1
    /\ out[1].status = "success"
    /\ out[1].blocks = <<>>
    /\ out[1].full_text = <<>>

\* C4 amended: a source that parses but yields zero pages makes ocr mode
\* return the failure "No images extracted from file" and exit with status 1.
C4_ZeroPagesIsFailure ==
  (LoadedPages /\ pc = "done" /\ mode = "ocr" /\ Len(images) = 0) =>
    /\ out = << ErrorResult(<<"No images extracted from file">>) >>
    /\ exit_code = 1
    /\ recognized = <<>>

\* an empty PDF in ocr mode
C4_Witness ==
  /\ LoadedPages /\ pc = "done" /\ mode = "ocr"
  /\ leaves = 0 /\ Len(images) = 0 /\ Len(out) = 1

\* C5 as stated: for a missing or unreadable path, preprocess and ocr mode
\* return a failure whose message references the path, and exit non-zero.
C5_Original ==
  (LoadFailed /\ mode \in {"preprocess", "ocr"}) =>
    /\ Len(out) = 1
    /\ out[1].status = "error"
    /\ Contains(out[1].message, path)
    /\ exit_code # 0

\* C5 amended: for a missing or unreadable path, preprocess and ocr mode
\* return a failure and exit non-zero; the message references the path when
\* the path does not exist, and is the loader's error text otherwise.
C5_LoadFailureIsFailure ==
  (LoadFailed /\ mode \in {"preprocess", "ocr"}) =>
    /\ Len(out) = 1
    /\ out[1].status = "error"
    /\ DOMAIN out[1] = {"status", "message"}
    /\ exit_code # 0
    /\ ~exists => Contains(out[1].message, path)
    /\ exists => out[1].message = error

\* a missing PDF in preprocess mode
C5_Witness ==
  /\ LoadFailed /\ mode = "preprocess" /\ ~exists /\ IsPdf(path)
  /\ Len(out) = 1

\* C6: at most one result is emitted, a failure result carries a status and
\* a message and nothing else, and an ocr run that fails on a later page
\* emits only that failure: no text and no blocks of the earlier pages.
C6_NoPartialOutput ==
  Engine =>
    /\ Len(out) <= 1
    /\ \A i \in 1..Len(out) :
         /\ out[i].status \in {"success", "error"}
         /\ out[i].status = "error" => DOMAIN out[i] = {"status", "message"}
    /\ (mode = "ocr" /\ pc = "done" /\ raised) =>
         /\ Len(out) = 1
         /\ out[1].status = "error"

\* recognition failed on page 2 after page 1 gave two fragments
C6_Witness ==
  /\ Engine /\ mode = "ocr" /\ pc = "done" /\ raised
  /\ Len(images) = 2 /\ Len(recognized) = 1 /\ Len(all_blocks) = 2
  /\ Len(out) = 1 /\ out[1].status = "error"

\* C7: every failure raised after the pages are loaded is caught by the
\* driver and becomes a structured failure result; no run ends with an
\* exception leaving the script and without a result.
C7_FailuresConverted ==
  (Engine /\ pc = "done" /\ raised) =>
    /\ ~uncaught
    /\ Len(out) = 1
    /\ out[1].status = "error"

\* C8: preprocess mode never calls recognition, normalizes the first page
\* only, and its success result reports the number of pages loaded.
C8_PreprocessFirstPageOnly ==
  (Engine /\ mode = "preprocess") =>
    /\ recognized = <<>>
    /\ Len(normalized) <= 1
    /\ \A i \in 1..Len(normalized) : normalized[i] = images[1].leaf
    /\ (Len(out) > 0 /\ out[1].status = "success") =>
         /\ Len(images) >= 1
         /\ out[1].page_count = Len(images)
         /\ normalized = << images[1].leaf >>

\* a two-page document previewed
C8_Witness ==
  /\ Engine /\ mode = "preprocess" /\ pc = "done"
  /\ Len(images) = 2
  /\ Len(out) = 1 /\ out[1].status = "success"
  /\ written # {}

\* C9: a PDF of n leaves loads as n pages, one per leaf in leaf order, so
\* page k (the tag of a block, the number in a marker) is leaf k.
C9_PageIsLeaf ==
  (LoadedPages /\ IsPdf(path)) =>
    /\ Len(images) = leaves
    /\ \A k \in 1..Len(images) : images[k].leaf = k
    /\ \A j \in 1..Len(all_blocks) :
         recognized[all_blocks[j].page].input.leaf = all_blocks[j].page

\* C10: when the run is over no document handle it opened is still open.
C10_HandleReleased ==
  pc = "done" => doc # "open"

====
